---- MODULE Spec2Model ----
(***************************************************************************)
(* Model of the meeseeks-box chatops bot: the configuration loader         *)
(* (config.New), the command catalog (command.New / Commands.Find), the    *)
(* reply templates (template.TemplatesBuilder) and the dispatcher          *)
(* (Meeseeks.Process) with its replyWith* helpers.                         *)
(*                                                                         *)
(* Strings stand for Go strings.  A chat text is a sequence of lexemes     *)
(* (words and the double quote); durations are counted in milliseconds.    *)
(***************************************************************************)
EXTENDS Integers, Sequences, FiniteSets, TLC

\* ------------------------------------------------------------------ bounds

\* Longest chat text, in lexemes.
MaxTextLen == 2

\* ------------------------------------------------------- config constants

\* config.AuthStrategy* (config.go 15-19)
AuthStrategyAny == "any"
AuthStrategyAllowedGroup == "group"
AuthStrategyNone == "none"

\* config.AdminGroup (config.go 22)
AdminGroup == "admin"

\* time.Second, with durations counted in milliseconds
Second == 1000

\* config.DefaultCommandTimeout (config.go 26)
DefaultCommandTimeout == 60 * Second

\* Command types (config.go 37-41)
BuiltinCommandType == 0
ShellCommandType == 1
RemoteCommandType == 2

\* Builtin command names (config.go 44-49)
BuiltinVersionCommand == "version"
BuiltinHelpCommand == "help"
BuiltinGroupsCommand == "groups"
BuiltinJobsCommand == "jobs"

\* Default reply colors (config.go 30-34)
DefaultInfoColorMessage == ""
DefaultErrColorMessage == "#cc3300"
DefaultSuccessColorMessage == "#009900"

\* ---------------------------------------------------------------- templates

\* Template names (template.go 15-21)
Handshake == "handshake"
Success == "success"
Failure == "failure"
UnknownCommand == "unknowncommand"
Unauthorized == "unauthorized"

TemplateNames == {Handshake, Success, Failure, UnknownCommand, Unauthorized}

\* A template text is abstracted to what the renderer does with it:
\*   text   - the text itself (its identity),
\*   parses - whether text/template's Parse accepts it,
\*   bank   - the phrase bank its AnyValue call reads ("" when it calls none).
\* The default templates (template.go 24-34) all parse and each reads the
\* bank of its own name.
DefaultTemplate(name) ==
    [text |-> "default " \o name, parses |-> TRUE, bank |-> name]

\* template.GetDefaultTemplates (template.go 37-45)
GetDefaultTemplates == [name \in TemplateNames |-> DefaultTemplate(name)]

\* template.GetDefaultMessages (template.go 48-67)
GetDefaultMessages ==
    [name \in TemplateNames |->
        CASE name = Handshake ->
                <<"I'm Mr Meeseeks! look at me!", "Mr Meeseeks!",
                  "Ooh, yeah! Can do!", "Ooh, ok!", "Yes, siree!",
                  "Ooh, I'm Mr. Meeseeks! Look at me!">>
          [] name = Success -> <<"All done!", "Mr Meeseeks", "Uuuuh, nice!">>
          [] name = Failure -> <<"Uuuh!, no, it failed">>
          [] name = Unauthorized -> <<"Uuuuh, yeah! you are not allowed to do">>
          [] OTHER -> <<"Uuuh! no, I don't know how to do">>]

\* Go's "for k, v := range src { dst[k] = v }"
Overlay(dst, src) ==
    [k \in (DOMAIN dst) \cup (DOMAIN src) |->
        IF k \in DOMAIN src THEN src[k] ELSE dst[k]]

\* template.NewBuilder (template.go 82-87) allocates a builder with maps of
\* its own. `at` tells the objects apart: a builder is a pointer, and
\* WithMessages and WithTemplates write through it and return it.
NewBuilder ==
    [at |-> "new", templates |-> GetDefaultTemplates,
     messages |-> GetDefaultMessages]

\* TemplatesBuilder.WithMessages (template.go 90-95)
WithMessages(b, messages) ==
    [b EXCEPT !.messages = Overlay(b.messages, messages)]

\* TemplatesBuilder.WithTemplates (template.go 98-103)
WithTemplates(b, templates) ==
    [b EXCEPT !.templates = Overlay(b.templates, templates)]

\* Clone handing back its receiver instead of a copy of it
Clone_Alias(b) == b

\* TemplatesBuilder.Clone (template.go 106-108)
Clone(b) == WithTemplates(WithMessages(NewBuilder, b.messages), b.templates)

\* TemplatesBuilder.Build (template.go 111-130): every template of the builder
\* is parsed; one that does not parse ends the process (log.Fatalf, line 116).
\* `builder` is the receiver as the call leaves it.
Build(b) ==
    [fatal |-> \E name \in DOMAIN b.templates : ~b.templates[name].parses,
     renderers |-> b.templates,
     defaultPayload |-> b.messages,
     builder |-> b]

\* anyValue (template.go 160-170): the possible results of {{ AnyValue key . }}.
\* A key missing from the payload is an error; an empty bank makes
\* rand.Intn(0) panic, which fails the rendering too.
anyValue(key, payload) ==
    IF key \notin DOMAIN payload THEN {[err |-> TRUE, phrase |-> ""]}
    ELSE IF Len(payload[key]) = 0 THEN {[err |-> TRUE, phrase |-> ""]}
    ELSE {[err |-> FALSE, phrase |-> payload[key][i]] : i \in 1..Len(payload[key])}

\* Templates.Render (template.go 133-150, 195-204): the possible results of
\* rendering `action`.
Render(t, action) ==
    IF action \notin DOMAIN t.renderers
    THEN {[err |-> TRUE, text |-> "", phrase |-> ""]}
    ELSE LET r == t.renderers[action] IN
         IF r.bank = ""
         THEN {[err |-> FALSE, text |-> r.text, phrase |-> ""]}
         ELSE {[err |-> v.err, text |-> IF v.err THEN "" ELSE r.text,
                phrase |-> v.phrase] : v \in anyValue(r.bank, t.defaultPayload)}

\* ------------------------------------------------------------ configuration

\* A template override that parses and renders without a phrase bank.
CustomTemplate(text) == [text |-> text, parses |-> TRUE, bank |-> ""]
\* "{{ .Foo" : text/template's Parse rejects it.
UnparseableTemplate == [text |-> "{{ .Foo", parses |-> FALSE, bank |-> ""]
\* "{{ AnyValue \"nope\" . }}" : parses, its execution fails (no such bank).
FailingTemplate ==
    [text |-> "{{ AnyValue nope . }}", parses |-> TRUE, bank |-> "nope"]

NoTemplates == [name \in {} |-> DefaultTemplate(name)]
NoMessages == [name \in {} |-> <<>>]

\* config.Command (config.go 108-117)
Command(cmd, args, allowedGroups, authStrategy, timeout, templates, type) ==
    [Cmd |-> cmd, Args |-> args, AllowedGroups |-> allowedGroups,
     AuthStrategy |-> authStrategy, Timeout |-> timeout,
     Templates |-> templates, Help |-> "", Type |-> type]

\* config.Config (config.go 99-105) with the colors config.New sets (59-63)
Config(commands, groups, messages) ==
    [Commands |-> commands, Groups |-> groups, Messages |-> messages,
     Colors |-> [Info |-> DefaultInfoColorMessage,
                 Success |-> DefaultSuccessColorMessage,
                 Error |-> DefaultErrColorMessage]]

\* The configurations as yaml.Unmarshal leaves them (config.go 71): timeouts
\* are the numbers written in the file, Type is the zero value.
RawConfigs ==
    { \* two commands, one of them with neither strategy nor timeout
      Config([n \in {"echo", "echo-2"} |->
                 IF n = "echo"
                 THEN Command("echo", <<"hi">>, <<>>, AuthStrategyAny, 5,
                              NoTemplates, 0)
                 ELSE Command("echo", <<>>, <<>>, "", 0, NoTemplates, 0)],
             [g \in {AdminGroup} |-> <<"pablo">>], NoMessages),
      \* "echo" with other settings, "echo-2" gone, a guarded command with
      \* its own unauthorized template, another admin
      Config([n \in {"echo", "danger"} |->
                 IF n = "echo"
                 THEN Command("echo", <<"hi">>, <<AdminGroup>>,
                              AuthStrategyAllowedGroup, 10, NoTemplates, 0)
                 ELSE Command("rm", <<>>, <<AdminGroup>>,
                              AuthStrategyAllowedGroup, 1,
                              [name \in {Unauthorized} |->
                                  CustomTemplate("no way")], 0)],
             [g \in {AdminGroup} |-> <<"daniele", "pablo">>],
             [name \in {Handshake} |-> <<"hallo">>]),
      \* a command named like a builtin, and a guarded command whose name is
      \* also the name of an administrator
      Config([n \in {BuiltinVersionCommand, "pablo"} |->
                 IF n = "pablo"
                 THEN Command("echo", <<>>, <<AdminGroup>>,
                              AuthStrategyAllowedGroup, 0, NoTemplates, 0)
                 ELSE Command("echo", <<"v0">>, <<>>, AuthStrategyAny, 2,
                              NoTemplates, 0)],
             [g \in {AdminGroup} |-> <<"pablo">>], NoMessages),
      \* templates that do not parse or do not render, an empty phrase bank
      Config([n \in {"echo", "danger"} |->
                 IF n = "echo"
                 THEN Command("echo", <<>>, <<>>, AuthStrategyAny, 0,
                              [name \in {Failure} |-> FailingTemplate], 0)
                 ELSE Command("rm", <<>>, <<>>, AuthStrategyNone, 0,
                              [name \in {Success} |-> UnparseableTemplate], 0)],
             [g \in {AdminGroup} |-> <<"pablo">>],
             [name \in {Success} |-> <<>>]),
      \* commands with no auth_strategy, one of them named like an
      \* administrator
      Config([n \in {"echo", "pablo"} |->
                 Command("echo", <<>>, <<>>, "", 3, NoTemplates, 0)],
             [g \in {AdminGroup} |-> <<"pablo">>], NoMessages) }

\* config.New (config.go 76-95): the defaults applied to every command.
ConfigNew(c) ==
    [c EXCEPT !.Commands =
        [name \in DOMAIN c.Commands |->
            LET command == c.Commands[name] IN
            [command EXCEPT
                !.AuthStrategy = IF command.AuthStrategy = ""
                                 THEN AuthStrategyNone
                                 ELSE command.AuthStrategy,
                !.Timeout = IF command.Timeout = 0
                            THEN DefaultCommandTimeout
                            ELSE command.Timeout * Second,
                !.Type = ShellCommandType]]]

\* A config.Config built in code rather than read by config.New: its commands
\* keep Type's zero value, which buildCommand does not know how to build.
StructConfigs ==
    { Config([n \in {"echo"} |->
                 Command("echo", <<>>, <<>>, AuthStrategyAny, 5 * Second,
                         NoTemplates, BuiltinCommandType)],
             [g \in {AdminGroup} |-> <<"pablo">>], NoMessages) }

\* The configurations meeseeks.New is called with.
Configs == {ConfigNew(c) : c \in RawConfigs} \cup StructConfigs

\* ------------------------------------------------------------------ catalog

BuiltinNames ==
    {BuiltinVersionCommand, BuiltinHelpCommand, BuiltinGroupsCommand,
     BuiltinJobsCommand}

\* The configuration a builtin command answers ConfiguredCommand() with.
BuiltinConfiguredCommand ==
    Command("", <<>>, <<>>, AuthStrategyAny, 0, NoTemplates, BuiltinCommandType)

\* builtInCommands (read by command.New, command.go 37)
builtInCommands ==
    [name \in BuiltinNames |->
        [kind |-> "builtin", Command |-> BuiltinConfiguredCommand]]

\* helpCommand{...} (command.go 49-52)
helpCommand == [kind |-> "help", Command |-> BuiltinConfiguredCommand]

\* newShellCommand (command.go 83-87)
newShellCommand(cmd) == [kind |-> "shell", Command |-> cmd]

\* buildCommand (command.go 69-75)
buildCommand(cmd) ==
    IF cmd.Type = ShellCommandType
    THEN [command |-> newShellCommand(cmd), err |-> FALSE]
    ELSE [command |-> newShellCommand(cmd), err |-> TRUE]

\* Commands{} : the zero value, a nil map
NoCommands == [name \in {} |-> helpCommand]

\* command.New, mutated: the configured commands are left out of the map.
New_NoConfigured(cnf) ==
    [commands |-> [builtInCommands EXCEPT ![BuiltinHelpCommand] = helpCommand],
     err |-> FALSE]

\* command.New (command.go 34-57)
New(cnf) ==
    IF \E name \in DOMAIN cnf.Commands : buildCommand(cnf.Commands[name]).err
    THEN [commands |-> NoCommands, err |-> TRUE]
    ELSE [commands |->
            [name \in BuiltinNames \cup DOMAIN cnf.Commands |->
                IF name = BuiltinHelpCommand THEN helpCommand
                ELSE IF name \in DOMAIN cnf.Commands
                     THEN buildCommand(cnf.Commands[name]).command
                     ELSE builtInCommands[name]],
          err |-> FALSE]

\* Commands.Find (command.go 60-66)
Find(c, name) ==
    IF name \in DOMAIN c
    THEN [cmd |-> c[name], err |-> FALSE]
    ELSE [cmd |-> [kind |-> "nil", Command |-> BuiltinConfiguredCommand],
          err |-> TRUE]

\* shellCommand.HasHandshake (command.go 111-113); a builtin has none.
HasHandshake(cmd) == cmd.kind = "shell"

\* shellCommand.ConfiguredCommand (command.go 115-117)
ConfiguredCommand(cmd) == cmd.Command

\* ----------------------------------------------------------------- requests

Quote == "\""
Words == {"echo", "danger", "pablo", "version", "sdfgsdfg"}
Lexemes == Words \cup {Quote}
Usernames == {"pablo", "nobody"}
Channels == {"general", "DM"}

RECURSIVE SeqsUpTo(_, _)
SeqsUpTo(S, n) ==
    IF n = 0 THEN {<<>>}
    ELSE LET shorter == SeqsUpTo(S, n - 1) IN
         shorter \cup {Append(q, x) : q \in shorter, x \in S}

\* The messages the chat client hands to Process (message.Message).
Messages ==
    [text : SeqsUpTo(Lexemes, MaxTextLen), username : Usernames,
     channel : Channels]

\* The tokens of a text: words split at blanks, a quoted stretch is one token.
\* A quote left open is an error.
RECURSIVE Tokenize(_, _, _, _)
Tokenize(text, quoted, cur, toks) ==
    IF text = <<>>
    THEN IF quoted THEN [err |-> TRUE, toks |-> <<>>]
         ELSE [err |-> FALSE, toks |-> toks]
    ELSE LET h == Head(text)
             t == Tail(text) IN
         IF h = Quote
         THEN IF quoted THEN Tokenize(t, FALSE, "", Append(toks, cur))
              ELSE Tokenize(t, TRUE, "", toks)
         ELSE IF quoted
              THEN Tokenize(t, TRUE, IF cur = "" THEN h ELSE cur \o " " \o h, toks)
              ELSE Tokenize(t, FALSE, "", Append(toks, h))

NoRequest ==
    [Command |-> "", Args |-> <<>>, Username |-> "", Channel |-> "", ReplyTo |-> ""]

\* request.FromMessage (called at meeseeks.go 42): a text that does not
\* tokenize, or has no token, is an error; the first token is the command.
FromMessage(m) ==
    LET p == Tokenize(m.text, FALSE, "", <<>>) IN
    IF p.err \/ Len(p.toks) = 0
    THEN [req |-> NoRequest, err |-> TRUE]
    ELSE [req |-> [Command |-> Head(p.toks), Args |-> Tail(p.toks),
                   Username |-> m.username, Channel |-> m.channel,
                   ReplyTo |-> "<@" \o m.username \o ">"],
          err |-> FALSE]

Contains(seq, x) == \E i \in 1..Len(seq) : seq[i] = x

\* auth.Check (called at meeseeks.go 54): TRUE when `name` may not run `cmd`.
Check(name, cmd, groups) ==
    LET member(g) == g \in DOMAIN groups /\ Contains(groups[g], name) IN
    CASE cmd.AuthStrategy = AuthStrategyAny -> FALSE
      [] cmd.AuthStrategy = AuthStrategyAllowedGroup ->
            ~\E i \in 1..Len(cmd.AllowedGroups) : member(cmd.AllowedGroups[i])
      [] cmd.AuthStrategy = AuthStrategyNone -> ~member(AdminGroup)
      [] OTHER -> TRUE

\* -------------------------------------------------------------------- state

VARIABLES
    config,        \* Meeseeks.config
    commands,      \* Meeseeks.commands
    templates,     \* Meeseeks.templates
    newErr,        \* the error command.New returned to the last meeseeks.New
    loaded,        \* the configuration the last meeseeks.New was called with
    prev,          \* the catalog that was active before the last meeseeks.New
    pc,            \* where Process stands
    msg,           \* the message Process was called with
    req,           \* Process's req
    cmd,           \* Process's cmd
    execErr,       \* whether Execute returned an error
    trace,         \* what Process did for msg, in order
    overlaid       \* a reply was rendered from a command's template override
                   \* since the last meeseeks.New

\* One call of shellCommand.Execute, step by step
VARIABLES
    xImpl,         \* which Execute runs: "command.go" or "part_000"
    xCmd,          \* the command executed (the receiver c)
    xProg,         \* what the subprocess does when it is left alone
    xpc,           \* where Execute stands
    ctx,           \* the context of context.WithTimeout
    proc,          \* the subprocess
    heir,          \* a descendant of the subprocess that holds its stdout
    wrote,         \* how many chunks of its script the subprocess has written
    pipe,          \* written to the stdout pipe, not yet read
    rdClosed,      \* the read end of the stdout pipe is closed
    buffer,        \* the bytes.Buffer the output is collected in
    tokens,        \* read by the scanner, not yet returned by Scan
    line,          \* the goroutine's `line`
    gpc,           \* where the scanning goroutine stands
    jobLog,        \* the job's log (logs.Append)
    xErr,          \* Execute's err / cmdErr
    ret,           \* what Execute returned
    hist           \* what happened on the way (history)

executorVars ==
    <<xImpl, xCmd, xProg, xpc, ctx, proc, heir, wrote, pipe, rdClosed, buffer,
      tokens, line, gpc, jobLog, xErr, ret, hist>>

dispatcherVars ==
    <<config, commands, templates, newErr, loaded, prev, pc, msg, req, cmd,
      execErr, trace, overlaid>>

\* Executions of one command on several workers
VARIABLES
    arrays,        \* the backing arrays of the []string values
    cArgs,         \* the slice c.Args() returns
    workers        \* each worker's request, cmdArgs and argv

workerVars == <<arrays, cArgs, workers>>

\* The Slack adapter
VARIABLES
    matcher,       \* Client.matcher
    lpc,           \* where ListenMessages stands
    event,         \* the event ListenMessages took last
    matched,       \* what Matches returned for it
    ch             \* the channel ListenMessages sends to

slackVars == <<matcher, lpc, event, matched, ch>>

\* A timeout on its way from the configuration file to Execute
VARIABLES
    tpc,           \* how far the configuration has come
    yamlTimeouts,  \* the timeout written in the file for each command
    cnfCommands,   \* Config.Commands as config.New returns it
    registered,    \* the commands built from it, and by whom
    running        \* the execution under way and its context's deadline

timeoutVars == <<tpc, yamlTimeouts, cnfCommands, registered, running>>

\* An agent's configuration on its two ways out of the agent
VARIABLES
    agentpc,        \* which of the two the agent has done
    agentCommands,  \* Configuration.Commands
    remoteCommands, \* what createAgentConfiguration advertises
    cmds            \* what registerLocalCommands registers

agentVars == <<agentpc, agentCommands, remoteCommands, cmds>>

vars == <<dispatcherVars, executorVars, workerVars, slackVars, timeoutVars,
          agentVars>>

\* What the steps of one component leave alone
beyondDispatcher ==
    <<executorVars, workerVars, slackVars, timeoutVars, agentVars>>
beyondExecutor ==
    <<dispatcherVars, workerVars, slackVars, timeoutVars, agentVars>>
beyondWorkers ==
    <<dispatcherVars, executorVars, slackVars, timeoutVars, agentVars>>
beyondSlack ==
    <<dispatcherVars, executorVars, workerVars, timeoutVars, agentVars>>
beyondTimeouts ==
    <<dispatcherVars, executorVars, workerVars, slackVars, agentVars>>
beyondAgent ==
    <<dispatcherVars, executorVars, workerVars, slackVars, timeoutVars>>

NoMessage == [text |-> <<>>, username |-> "", channel |-> ""]
NilCommand == [kind |-> "nil", Command |-> BuiltinConfiguredCommand]

\* One step of Process as the world sees it.
Event(ev) ==
    [ev |-> ev, kind |-> "", command |-> "", channel |-> "", color |-> "",
     text |-> "", phrase |-> "", replyTo |-> "", posted |-> FALSE]

\* A call of Client.Reply (meeseeks.go 15-18) with the rendered content;
\* `posted` is whether the client got it onto the channel (its error is
\* dropped by every caller).
ReplyEvent(kind, r, command, color, channel, replyTo, posted) ==
    [ev |-> "Reply", kind |-> kind, command |-> command, channel |-> channel,
     color |-> color, text |-> r.text, phrase |-> r.phrase,
     replyTo |-> replyTo, posted |-> posted]

MeeseeksFields ==
    <<config, commands, templates, newErr, loaded, prev, overlaid>>

\* The builder meeseeks.New builds and keeps in Meeseeks.templates
\* (meeseeks.go 31, 36): the process defaults of the replies.
templatesBuilder(conf) ==
    [WithMessages(NewBuilder, conf.Messages) EXCEPT !.at = "Meeseeks.templates"]

\* meeseeks.New (meeseeks.go 29-38)
MeeseeksNew(conf) ==
    LET built == New(conf) IN
    /\ commands' = built.commands
    /\ newErr' = built.err
    /\ templates' = templatesBuilder(conf)
    /\ config' = conf
    /\ loaded' = conf
    /\ overlaid' = FALSE

IdleLocals ==
    /\ pc = "idle"
    /\ msg = NoMessage
    /\ req = NoRequest
    /\ cmd = NilCommand
    /\ execErr = FALSE
    /\ trace = <<>>

\* The service after meeseeks.New, before any message
InitMeeseeks ==
    /\ \E conf \in Configs :
          /\ commands = New(conf).commands
          /\ newErr = New(conf).err
          /\ templates = templatesBuilder(conf)
          /\ config = conf
          /\ loaded = conf
    /\ overlaid = FALSE
    /\ prev = [set |-> FALSE, commands |-> NoCommands]
    /\ IdleLocals

\* Execute's locals as a call finds them
NoContext == [deadline |-> 0, state |-> "none"]
NoLine == [text |-> "", nl |-> FALSE]
\* What Execute returns, and the log as the return leaves it
NoReturn == [out |-> <<>>, err |-> "nil", log |-> <<>>]
NoHistory ==
    [lateAppend |-> FALSE, failedAppends |-> 0, failedSetError |-> FALSE]
NoProgram == [script |-> <<>>, exit |-> "exit 0", forks |-> FALSE]

ExecuteLocals(at) ==
    /\ xpc = at
    /\ ctx = NoContext
    /\ proc = "unstarted"
    /\ heir = "none"
    /\ wrote = 0
    /\ pipe = <<>>
    /\ rdClosed = FALSE
    /\ buffer = <<>>
    /\ tokens = <<>>
    /\ line = NoLine
    /\ gpc = "off"
    /\ jobLog = <<>>
    /\ xErr = "nil"
    /\ ret = NoReturn
    /\ hist = NoHistory

\* No execution is looked into
NoExecution ==
    /\ xImpl = ""
    /\ xCmd = NilCommand
    /\ xProg = NoProgram
    /\ ExecuteLocals("off")

\* A slice of a backing array (`arr` names the array)
Slice(arr, len, cap) == [arr |-> arr, len |-> len, cap |-> cap]
NilSlice == Slice("nil", 0, 0)
WorkerNames == {"w1", "w2"}
ArrayNames == {"Args"} \cup WorkerNames
IdleWorker == [pc |-> "idle", Args |-> <<>>, cmdArgs |-> NilSlice, argv |-> <<>>]

\* No worker is looked into
NoWorkers ==
    /\ arrays = [a \in ArrayNames |-> <<>>]
    /\ cArgs = NilSlice
    /\ workers = [w \in WorkerNames |-> IdleWorker]

\* slack.MessageEvent, as far as the adapter reads it; other events have
\* another type
SlackEvent(type, user, channel, text) ==
    [type |-> type, User |-> user, Channel |-> channel, Text |-> text]
NoEvent == SlackEvent("", "", <<>>, <<>>)

\* slack.Message (the value Matches returns)
SlackMessage(text, userID, channelID, username, channel, isIM) ==
    [text |-> text, userID |-> userID, channelID |-> channelID,
     username |-> username, channel |-> channel, isIM |-> isIM]
NoSlackMessage == SlackMessage(<<>>, "", <<>>, "", "", FALSE)
NoMatch == [err |-> FALSE, message |-> NoSlackMessage]

\* newMessageMatcher (slack.go 140-145)
newMessageMatcher(stealth) ==
    [botID |-> "", prefixMatches |-> <<>>, stealth |-> stealth]

\* The adapter is not looked into
NoSlack ==
    /\ matcher = newMessageMatcher(FALSE)
    /\ lpc = "off"
    /\ event = NoEvent
    /\ matched = NoMatch
    /\ ch = <<>>

\* No configuration file is followed
NoRunning == [name |-> "", impl |-> "", deadline |-> 0]
NoRegistered == [by |-> "", commands |-> NoCommands]
NoTimeouts ==
    /\ tpc = "off"
    /\ yamlTimeouts = [name \in {} |-> 0]
    /\ cnfCommands = [name \in {} |-> BuiltinConfiguredCommand]
    /\ registered = NoRegistered
    /\ running = NoRunning

\* No agent is looked into
NoAgent ==
    /\ agentpc = "off"
    /\ agentCommands = [name \in {} |-> BuiltinConfiguredCommand]
    /\ remoteCommands = [name \in {} |-> BuiltinConfiguredCommand]
    /\ cmds = NoCommands

Init ==
    /\ InitMeeseeks
    /\ NoExecution
    /\ NoWorkers
    /\ NoSlack
    /\ NoTimeouts
    /\ NoAgent

\* The service is built again from another configuration (a reload): the new
\* Meeseeks value replaces the one in use, between two messages.
Load ==
    /\ pc = "idle"
    /\ \E conf \in Configs : MeeseeksNew(conf)
    /\ prev' = [set |-> TRUE, commands |-> commands]
    /\ pc' = "idle"
    /\ msg' = NoMessage
    /\ req' = NoRequest
    /\ cmd' = NilCommand
    /\ execErr' = FALSE
    /\ trace' = <<>>
    /\ UNCHANGED beyondDispatcher

\* --------------------------------------------------------------- dispatcher

\* Meeseeks.buildTemplatesFor (meeseeks.go 137-139)
buildTemplatesFor(c) ==
    Build(WithTemplates(Clone(templates), ConfiguredCommand(c).Templates))

\* The body the replyWith* helpers share: render `kind`; a template that
\* does not parse (template.go 116) or does not render (log.Fatalf in each
\* helper) ends the process; otherwise Client.Reply is called once and
\* Process goes on at `next`. What the builder calls wrote through the
\* pointer Meeseeks.templates stays written.
RenderAndReply(t, kind, command, color, channel, replyTo, next) ==
    /\ IF t.fatal \/ \A r \in Render(t, kind) : r.err
       THEN /\ pc' = "crashed"
            /\ trace' = trace
            /\ overlaid' = overlaid
       ELSE \E r \in Render(t, kind), posted \in BOOLEAN :
               /\ ~r.err
               /\ trace' = Append(trace, ReplyEvent(kind, r, command, color,
                                                    channel, replyTo, posted))
               /\ overlaid' = (overlaid \/ r.text # DefaultTemplate(kind).text)
               /\ pc' = next
    /\ templates' = IF t.builder.at = templates.at THEN t.builder ELSE templates
    /\ UNCHANGED <<config, commands, newErr, loaded, prev, msg, req, cmd,
                   execErr, beyondDispatcher>>

\* Process is called with a message (meeseeks.go 41-47)
Process_FromMessage ==
    /\ pc = "idle"
    /\ \E m \in Messages :
          LET p == FromMessage(m) IN
          /\ msg' = m
          /\ req' = p.req
          /\ pc' = IF p.err THEN "replyWithInvalidMessage" ELSE "Find"
          /\ trace' = <<[Event("FromMessage") EXCEPT
                            !.kind = IF p.err THEN "error" ELSE "ok"]>>
    /\ cmd' = NilCommand
    /\ execErr' = FALSE
    /\ UNCHANGED <<MeeseeksFields, beyondDispatcher>>

\* meeseeks.go 49-53
Process_Find ==
    /\ pc = "Find"
    /\ LET f == Find(commands, req.Command) IN
          /\ cmd' = f.cmd
          /\ pc' = IF f.err THEN "replyWithUnknownCommand" ELSE "Check"
          /\ trace' = Append(trace, [Event("Find") EXCEPT
                                        !.kind = IF f.err THEN "notfound"
                                                 ELSE "found"])
    /\ UNCHANGED <<MeeseeksFields, msg, req, execErr, beyondDispatcher>>

\* meeseeks.go 54-57: the name handed to auth.Check is req.Command
Process_Check ==
    /\ pc = "Check"
    /\ LET err == Check(req.Command, ConfiguredCommand(cmd), config.Groups) IN
          /\ trace' = Append(trace, [Event("Check") EXCEPT
                                        !.kind = IF err THEN "denied" ELSE "allowed"])
          /\ pc' = IF err THEN "replyWithUnauthorizedCommand"
                   ELSE "replyWithHandshake"
    /\ UNCHANGED <<MeeseeksFields, msg, req, cmd, execErr, beyondDispatcher>>

\* replyWithHandshake without the HasHandshake test of meeseeks.go 96-98
replyWithHandshake_Always ==
    /\ pc = "replyWithHandshake"
    /\ RenderAndReply(buildTemplatesFor(cmd), Handshake, req.Command,
                      config.Colors.Info, req.Channel, req.ReplyTo, "Execute")

\* Meeseeks.replyWithHandshake (meeseeks.go 95-105), called at line 61
replyWithHandshake ==
    /\ pc = "replyWithHandshake"
    /\ IF ~HasHandshake(cmd)
       THEN /\ pc' = "Execute"
            /\ UNCHANGED <<MeeseeksFields, msg, req, cmd, execErr, trace,
                           beyondDispatcher>>
       ELSE RenderAndReply(buildTemplatesFor(cmd), Handshake, req.Command,
                           config.Colors.Info, req.Channel, req.ReplyTo,
                           "Execute")

\* cmd.Execute(req.Args...) returns (meeseeks.go 63-64): with or without error
Process_Execute ==
    /\ pc = "Execute"
    /\ \E e \in BOOLEAN :
          /\ execErr' = e
          /\ pc' = IF e THEN "replyWithCommandFailed" ELSE "replyWithSuccess"
    /\ trace' = Append(trace, Event("Execute"))
    /\ UNCHANGED <<MeeseeksFields, msg, req, cmd, beyondDispatcher>>

\* replyWithInvalidMessage with the return of meeseeks.go 46 missing:
\* Process falls through to the lookup.
replyWithInvalidMessage_FallsThrough ==
    /\ pc = "replyWithInvalidMessage"
    /\ RenderAndReply(Build(templates), Failure, "", config.Colors.Error,
                      msg.channel, "<@" \o msg.username \o ">", "Find")

\* Meeseeks.replyWithInvalidMessage (meeseeks.go 75-82), then the return of
\* line 46
replyWithInvalidMessage ==
    /\ pc = "replyWithInvalidMessage"
    /\ RenderAndReply(Build(templates), Failure, "", config.Colors.Error,
                      msg.channel, "<@" \o msg.username \o ">", "done")

\* replyWithUnknownCommand with the return of meeseeks.go 52 missing:
\* Process falls through to the authorization check.
replyWithUnknownCommand_FallsThrough ==
    /\ pc = "replyWithUnknownCommand"
    /\ RenderAndReply(Build(templates), UnknownCommand, req.Command,
                      config.Colors.Error, req.Channel, req.ReplyTo, "Check")

\* Meeseeks.replyWithUnknownCommand (meeseeks.go 84-93), then the return of
\* line 52
replyWithUnknownCommand ==
    /\ pc = "replyWithUnknownCommand"
    /\ RenderAndReply(Build(templates), UnknownCommand, req.Command,
                      config.Colors.Error, req.Channel, req.ReplyTo, "done")

\* replyWithUnauthorizedCommand with the return of meeseeks.go 56 missing:
\* Process falls through to the handshake.
replyWithUnauthorizedCommand_FallsThrough ==
    /\ pc = "replyWithUnauthorizedCommand"
    /\ RenderAndReply(buildTemplatesFor(cmd), Unauthorized, req.Command,
                      config.Colors.Error, req.Channel, req.ReplyTo,
                      "replyWithHandshake")

\* Meeseeks.replyWithUnauthorizedCommand (meeseeks.go 107-116), then the
\* return of line 56
replyWithUnauthorizedCommand ==
    /\ pc = "replyWithUnauthorizedCommand"
    /\ RenderAndReply(buildTemplatesFor(cmd), Unauthorized, req.Command,
                      config.Colors.Error, req.Channel, req.ReplyTo, "done")

\* replyWithCommandFailed with the return of meeseeks.go 68 missing: Process
\* falls through to replyWithSuccess.
replyWithCommandFailed_FallsThrough ==
    /\ pc = "replyWithCommandFailed"
    /\ RenderAndReply(buildTemplatesFor(cmd), Failure, req.Command,
                      config.Colors.Error, req.Channel, req.ReplyTo,
                      "replyWithSuccess")

\* Meeseeks.replyWithCommandFailed (meeseeks.go 118-125), then the return
\* of line 68
replyWithCommandFailed ==
    /\ pc = "replyWithCommandFailed"
    /\ RenderAndReply(buildTemplatesFor(cmd), Failure, req.Command,
                      config.Colors.Error, req.Channel, req.ReplyTo, "done")

\* Meeseeks.replyWithSuccess (meeseeks.go 127-135)
replyWithSuccess ==
    /\ pc = "replyWithSuccess"
    /\ RenderAndReply(buildTemplatesFor(cmd), Success, req.Command,
                      config.Colors.Success, req.Channel, req.ReplyTo, "done")

\* Process returns (meeseeks.go 46, 52, 56, 68, 73): its locals are gone
Process_Return ==
    /\ pc = "done"
    /\ pc' = "idle"
    /\ msg' = NoMessage
    /\ req' = NoRequest
    /\ cmd' = NilCommand
    /\ execErr' = FALSE
    /\ trace' = <<>>
    /\ UNCHANGED <<MeeseeksFields, beyondDispatcher>>

Next ==
    \/ Load
    \/ Process_FromMessage
    \/ Process_Find
    \/ Process_Check
    \/ replyWithHandshake
    \/ Process_Execute
    \/ replyWithInvalidMessage
    \/ replyWithUnknownCommand
    \/ replyWithUnauthorizedCommand
    \/ replyWithCommandFailed
    \/ replyWithSuccess
    \/ Process_Return

Spec == Init /\ [][Next]_vars

\* ------------------------------------------------------------ what Process did

Indices == 1..Len(trace)
Did(ev) == \E i \in Indices : trace[i].ev = ev
DidKind(ev, kind) == \E i \in Indices : trace[i].ev = ev /\ trace[i].kind = kind
Replies == {i \in Indices : trace[i].ev = "Reply"}
RepliesOf(kind) == {i \in Replies : trace[i].kind = kind}
TerminalReplies == RepliesOf(Success) \cup RepliesOf(Failure)

\* The message did not parse / named no command of the catalog / was denied /
\* was accepted.
ParseFailed == DidKind("FromMessage", "error")
NotFound == DidKind("Find", "notfound")
Denied == DidKind("Check", "denied")
Accepted == DidKind("Check", "allowed")

\* -------------------------------------------------------------------- claims

C3_UnknownCommandOnlyReplies ==
    NotFound =>
        /\ req.Command \notin DOMAIN commands
        /\ ~Did("Check")
        /\ ~Did("Execute")
        /\ Replies = RepliesOf(UnknownCommand)
        /\ Cardinality(Replies) <= 1
        /\ \A i \in Replies :
              /\ trace[i].command = req.Command
              /\ trace[i].channel = msg.channel
        /\ pc \in {"replyWithUnknownCommand", "done", "crashed"}
        /\ pc = "done" => Cardinality(Replies) = 1

\* C3 witness: "sdfgsdfg" was answered with its one unknowncommand reply.
C3_Witness ==
    /\ NotFound
    /\ pc = "done"
    /\ \E i \in RepliesOf(UnknownCommand) : trace[i].command = "sdfgsdfg"

\* C4: the authorization decision is a function of the requesting user: a
\* command with strategy group is let through iff the request's username is
\* in one of its allowed groups, one with strategy none only if the username
\* is in the admin group, one with strategy any always.
C4_DecisionByUsername ==
    \A i \in Indices :
        trace[i].ev = "Check" =>
            LET allowed == trace[i].kind = "allowed"
                c == ConfiguredCommand(cmd)
                member(g) == g \in DOMAIN config.Groups
                             /\ Contains(config.Groups[g], req.Username) IN
            /\ c.AuthStrategy = AuthStrategyAllowedGroup =>
                  (allowed <=> \E k \in 1..Len(c.AllowedGroups) :
                                  member(c.AllowedGroups[k]))
            /\ c.AuthStrategy = AuthStrategyNone => (allowed => member(AdminGroup))
            /\ c.AuthStrategy = AuthStrategyAny => allowed

\* C5: a handshake reply is posted only for an accepted command that has the
\* handshake flag, after the authorization check has passed and before
\* Execute and any terminal reply; and whenever Execute has been called, a
\* handshake reply precedes it iff the command has the flag.
C5_HandshakeIffFlagBeforeExecute ==
    /\ Cardinality(RepliesOf(Handshake)) <= 1
    /\ \A i \in RepliesOf(Handshake) :
          /\ HasHandshake(cmd)
          /\ \E j \in 1..(i - 1) :
                trace[j].ev = "Check" /\ trace[j].kind = "allowed"
          /\ \A j \in 1..(i - 1) :
                trace[j].ev # "Execute" /\ j \notin TerminalReplies
          /\ trace[i].channel = msg.channel
          /\ trace[i].color = DefaultInfoColorMessage
    /\ \A i \in Indices :
          trace[i].ev = "Execute" =>
              (HasHandshake(cmd) <=> \E j \in 1..(i - 1) : j \in RepliesOf(Handshake))

\* C5 witness: a command with the flag ran after its handshake and got its
\* terminal reply.
C5_Witness ==
    /\ pc = "done"
    /\ HasHandshake(cmd)
    /\ \E i \in RepliesOf(Handshake), j \in Indices, k \in TerminalReplies :
          trace[j].ev = "Execute" /\ i < j /\ j < k

\* Every name a lookup is tried with.
CommandNames ==
    UNION {DOMAIN c.Commands : c \in Configs} \cup Words \cup BuiltinNames \cup {""}

\* C6: after a successful build from configuration B that follows an earlier
\* build, a name that is no builtin is found iff B defines it, the command
\* found carries B's settings (timeout, auth strategy and the rest), and the
\* groups in use are B's.
C6_ReloadReplacesCatalog ==
    (prev.set /\ ~newErr) =>
        /\ \A name \in CommandNames \ BuiltinNames :
              /\ ~Find(commands, name).err <=> name \in DOMAIN loaded.Commands
              /\ name \in DOMAIN loaded.Commands =>
                    /\ ConfiguredCommand(Find(commands, name).cmd).Timeout
                          = loaded.Commands[name].Timeout
                    /\ ConfiguredCommand(Find(commands, name).cmd).AuthStrategy
                          = loaded.Commands[name].AuthStrategy
                    /\ ConfiguredCommand(Find(commands, name).cmd)
                          = loaded.Commands[name]
        /\ config.Groups = loaded.Groups

\* C6 witness: the hot reload of the scenario: "echo-2" was in the catalog
\* before and is gone, "echo" went from 5 s / any to 10 s / group, and admin
\* went from [pablo] to [daniele, pablo].
C6_Witness ==
    /\ prev.set /\ ~newErr
    /\ "echo-2" \in DOMAIN prev.commands
    /\ Find(commands, "echo-2").err
    /\ "echo" \in DOMAIN prev.commands
    /\ ConfiguredCommand(prev.commands["echo"]).Timeout = 5 * Second
    /\ ConfiguredCommand(prev.commands["echo"]).AuthStrategy = AuthStrategyAny
    /\ ~Find(commands, "echo").err
    /\ ConfiguredCommand(Find(commands, "echo").cmd).Timeout = 10 * Second
    /\ ConfiguredCommand(Find(commands, "echo").cmd).AuthStrategy
          = AuthStrategyAllowedGroup
    /\ config.Groups[AdminGroup] = <<"daniele", "pablo">>

\* C7: when building the catalog from a configuration fails, the catalog
\* that was active before stays active: every lookup answers as before.
C7_FailedBuildKeepsCatalog ==
    (prev.set /\ newErr) =>
        \A name \in CommandNames :
            Find(commands, name) = Find(prev.commands, name)

\* C8: a builtin name is never answered with a configured shell command, and
\* building from a configuration that defines a builtin's name fails.
C8_BuiltinsNotShadowed ==
    /\ \A name \in BuiltinNames :
          ~Find(commands, name).err => Find(commands, name).cmd.kind # "shell"
    /\ (DOMAIN loaded.Commands) \cap BuiltinNames # {} => newErr

\* C9: no failure to render a reply and no failure of the client to post one
\* ends the dispatcher.
C9_DispatcherSurvives == pc # "crashed"

\* C10 as stated: a message that does not parse is answered with an
\* unknowncommand reply, at most one reply in total, and reaches neither
\* the lookup, nor the authorization check, nor an executor.
C10_UnparseableGetsUnknownCommand ==
    ParseFailed =>
        /\ ~Did("Find") /\ ~Did("Check") /\ ~Did("Execute")
        /\ Cardinality(Replies) <= 1
        /\ Replies = RepliesOf(UnknownCommand)

\* C10 as amended: a message that does not parse is answered with a failure
\* reply in the error color on the message's channel, at most one reply in
\* total and exactly one once Process has returned, and reaches neither the
\* lookup, nor the authorization check, nor an executor.
C10_UnparseableGetsFailure ==
    ParseFailed =>
        /\ ~Did("Find") /\ ~Did("Check") /\ ~Did("Execute")
        /\ Cardinality(Replies) <= 1
        /\ Replies = RepliesOf(Failure)
        /\ \A i \in Replies :
              /\ trace[i].channel = msg.channel
              /\ trace[i].color = DefaultErrColorMessage
        /\ pc \in {"replyWithInvalidMessage", "done", "crashed"}
        /\ pc = "done" => Cardinality(Replies) = 1

\* C10 witness: a text with an open quote was answered with its one failure
\* reply.
C10_Witness ==
    /\ ParseFailed
    /\ pc = "done"
    /\ msg.text = <<Quote, "echo">>
    /\ Cardinality(RepliesOf(Failure)) = 1

\* ---------------------------------------------------------------------------
\* C22: after a load no configured command has an empty strategy; a command
\* the file gives no auth_strategy has the strategy none, and whenever the
\* check lets a request for it through, the requesting user is in the admin
\* group.
NoExplicitStrategy(name) ==
    \E raw \in RawConfigs :
        /\ loaded = ConfigNew(raw)
        /\ name \in DOMAIN raw.Commands
        /\ raw.Commands[name].AuthStrategy = ""

C22_NoStrategyIsAdminOnly ==
    /\ \A name \in DOMAIN loaded.Commands :
          /\ loaded.Commands[name].AuthStrategy # ""
          /\ NoExplicitStrategy(name) =>
                loaded.Commands[name].AuthStrategy = AuthStrategyNone
    /\ Accepted /\ NoExplicitStrategy(req.Command) =>
          /\ AdminGroup \in DOMAIN config.Groups
          /\ Contains(config.Groups[AdminGroup], req.Username)

\* ---------------------------------------------------------------------------
\* C19: overlaying a command's template overrides never changes the process
\* defaults. Whatever was rendered before, the builder Meeseeks.templates
\* points to is still the one meeseeks.New built (the default templates and
\* the phrase banks with the configured messages over them), and every reply
\* of the message being processed is rendered from the override its own
\* command has for that kind of reply or, when it has none (and for replies
\* to unknown commands and to invalid messages), from the default template,
\* with a phrase of the process's bank.
C19_OverridesStayLocal ==
    /\ templates = templatesBuilder(config)
    /\ \A i \in Replies :
          LET e == trace[i]
              own == ConfiguredCommand(cmd).Templates
              bank == templatesBuilder(config).messages[e.kind]
          IN /\ e.text = IF e.kind \in DOMAIN own THEN own[e.kind].text
                         ELSE DefaultTemplate(e.kind).text
             /\ e.phrase # "" => Contains(bank, e.phrase)

\* A reply was rendered from some command's override, and afterwards a
\* message for a command without overrides (or for no command) was answered
\* from the default template.
C19_Witness ==
    /\ overlaid
    /\ pc = "done"
    /\ DOMAIN ConfiguredCommand(cmd).Templates = {}
    /\ \E i \in Replies : trace[i].text = DefaultTemplate(trace[i].kind).text

\* ----------------------------------------------------------------- executor
\* shellCommand.Execute in its two versions: command.go 90-109 collects the
\* output with CombinedOutput and appends it to the log in one piece;
\* part_000 89-127 reads the stdout pipe in a goroutine that appends line by
\* line.

MaxLines == 2

\* What a subprocess writes: a chunk is a line of text on one of its
\* streams, with its newline or (the last one only) cut short of it.
Chunk(stream, text, nl) == [stream |-> stream, text |-> text, nl |-> nl]
Chunks ==
    {Chunk("stdout", "one", TRUE), Chunk("stdout", "two", FALSE),
     Chunk("stderr", "oops", TRUE)}
Scripts ==
    {s \in SeqsUpTo(Chunks, MaxLines) : \A i \in 1..(Len(s) - 1) : s[i].nl}

\* A subprocess: what it writes, how it ends when nobody kills it, and
\* whether it leaves a descendant behind that has inherited its stdout.
Programs == [script : Scripts, exit : {"exit 0", "exit 1", "never"},
             forks : BOOLEAN]

\* The bytes of a chunk as they travel
Raw(c) == [text |-> c.text, nl |-> c.nl]
\* scanner.Text() after bufio.ScanLines (part_000 106-107): the line without
\* its newline
ScanText(tok) == tok.text
\* fmt.Sprintln (part_000 107): the text and a newline
Sprintln(t) == [text |-> t, nl |-> TRUE]

ShellCommands == {commands[n] : n \in {m \in DOMAIN commands : commands[m].kind = "shell"}}

InitExecute ==
    /\ InitMeeseeks
    /\ NoWorkers
    /\ NoSlack
    /\ NoTimeouts
    /\ NoAgent
    /\ xImpl \in {"command.go", "part_000"}
    /\ xCmd \in ShellCommands
    /\ xProg \in Programs
    /\ ExecuteLocals("Execute")

\* cmd.Wait's error for a subprocess that has ended
WaitErr ==
    IF proc = "killed" THEN "signal: killed"
    ELSE IF xProg.exit = "exit 0" THEN "nil" ELSE "exit status 1"

\* Execute returns: the deferred cancelFunc (part_000 93, command.go 94)
\* cancels the context, and a subprocess started under it that still runs is
\* killed.
Return(out, e) ==
    /\ ret' = [out |-> out, err |-> e, log |-> jobLog]
    /\ xpc' = "returned"
    /\ ctx' = [ctx EXCEPT !.state = IF @ = "live" THEN "cancelled" ELSE @]
    /\ proc' = IF proc = "running" THEN "killed" ELSE proc

\* context.WithTimeout and exec.CommandContext (part_000 92-95,
\* command.go 93-97)
Execute_WithTimeout ==
    /\ xpc = "Execute"
    /\ ctx' = [deadline |-> ConfiguredCommand(xCmd).Timeout, state |-> "live"]
    /\ xpc' = IF xImpl = "part_000" THEN "StdoutPipe" ELSE "CombinedOutput"
    /\ UNCHANGED <<xImpl, xCmd, xProg, proc, heir, wrote, pipe, rdClosed,
                   buffer, tokens, line, gpc, jobLog, xErr, ret, hist,
                   beyondExecutor>>

\* The deadline of the context expires: exec.CommandContext kills the
\* subprocess if it runs (part_000 92-95, command.go 93-97)
Deadline ==
    /\ ctx.state = "live"
    /\ ctx' = [ctx EXCEPT !.state = "expired"]
    /\ proc' = IF proc = "running" THEN "killed" ELSE proc
    /\ UNCHANGED <<xImpl, xCmd, xProg, xpc, heir, wrote, pipe, rdClosed,
                   buffer, tokens, line, gpc, jobLog, xErr, ret, hist,
                   beyondExecutor>>

\* part_000 97-100
Execute_StdoutPipe ==
    /\ xpc = "StdoutPipe"
    /\ \E ok \in BOOLEAN :
          IF ok
          THEN /\ xpc' = "go"
               /\ xErr' = "nil"
               /\ UNCHANGED <<ret, ctx, proc>>
          ELSE /\ xErr' = "pipe"
               /\ Return(<<>>, "pipe")
    /\ UNCHANGED <<xImpl, xCmd, xProg, heir, wrote, pipe, rdClosed, buffer,
                   tokens, line, gpc, jobLog, hist, beyondExecutor>>

\* part_000 102-112: the goroutine is started and nothing keeps track of it
Execute_go ==
    /\ xpc = "go"
    /\ gpc' = "Scan"
    /\ xpc' = "Start"
    /\ UNCHANGED <<xImpl, xCmd, xProg, ctx, proc, heir, wrote, pipe, rdClosed,
                   buffer, tokens, line, jobLog, xErr, ret, hist,
                   beyondExecutor>>

\* part_000 114: cmd.Start. It fails when the program cannot be started or
\* the context is already done, and then closes the pipe.
Execute_Start ==
    /\ xpc = "Start"
    /\ \E ok \in BOOLEAN :
          LET started == ok /\ ctx.state = "live" IN
          /\ proc' = IF started THEN "running" ELSE proc
          /\ heir' = IF started /\ xProg.forks THEN "alive" ELSE heir
          /\ rdClosed' = ~started
          /\ xErr' = IF started THEN "nil" ELSE "start"
    /\ xpc' = "SetError"
    /\ UNCHANGED <<xImpl, xCmd, xProg, ctx, wrote, pipe, buffer, tokens, line,
                   gpc, jobLog, ret, hist, beyondExecutor>>

\* part_000 115-118
Execute_SetError_Start ==
    /\ xpc = "SetError"
    /\ \E ok \in BOOLEAN :
          IF ok
          THEN /\ xpc' = "Wait"
               /\ UNCHANGED <<ret, ctx, proc, hist>>
          ELSE /\ Return(<<>>, xErr)
               /\ hist' = [hist EXCEPT !.failedSetError = TRUE]
    /\ UNCHANGED <<xImpl, xCmd, xProg, heir, wrote, pipe, rdClosed, buffer,
                   tokens, line, gpc, jobLog, xErr, beyondExecutor>>

\* part_000 120: cmd.Wait returns once the subprocess has ended (at once
\* when it was never started) and closes the read end of the pipe.
Execute_Wait ==
    /\ xpc = "Wait"
    /\ IF proc = "unstarted"
       THEN xErr' = "exec: not started"
       ELSE /\ proc \in {"exited", "killed"}
            /\ xErr' = WaitErr
    /\ rdClosed' = TRUE
    /\ xpc' = "SetError_Wait"
    /\ UNCHANGED <<xImpl, xCmd, xProg, ctx, proc, heir, wrote, pipe, buffer,
                   tokens, line, gpc, jobLog, ret, hist, beyondExecutor>>

\* part_000 121-126
Execute_SetError_Wait ==
    /\ xpc = "SetError_Wait"
    /\ \E ok \in BOOLEAN :
          /\ Return(IF ok THEN buffer ELSE <<>>, xErr)
          /\ hist' = [hist EXCEPT !.failedSetError = @ \/ ~ok]
    /\ UNCHANGED <<xImpl, xCmd, xProg, heir, wrote, pipe, rdClosed, buffer,
                   tokens, line, gpc, jobLog, xErr, beyondExecutor>>

\* command.go 98, first half of CombinedOutput: stdout and stderr are set to
\* one buffer and the subprocess is started.
Execute_CombinedOutput ==
    /\ xpc = "CombinedOutput"
    /\ \E ok \in BOOLEAN :
          LET started == ok /\ ctx.state = "live" IN
          /\ proc' = IF started THEN "running" ELSE proc
          /\ heir' = IF started /\ xProg.forks THEN "alive" ELSE heir
          /\ xErr' = IF started THEN "nil" ELSE "start"
          /\ xpc' = IF started THEN "CombinedOutput_Wait" ELSE "Append"
    /\ UNCHANGED <<xImpl, xCmd, xProg, ctx, wrote, pipe, rdClosed, buffer,
                   tokens, line, gpc, jobLog, ret, hist, beyondExecutor>>

\* command.go 98, second half of CombinedOutput: the wait for the subprocess
\* and for the copying of its output, which ends when every holder of the
\* stream has closed it.
Execute_CombinedOutput_Wait ==
    /\ xpc = "CombinedOutput_Wait"
    /\ proc \in {"exited", "killed"}
    /\ heir # "alive"
    /\ xErr' = WaitErr
    /\ xpc' = "Append"
    /\ UNCHANGED <<xImpl, xCmd, xProg, ctx, proc, heir, wrote, pipe, rdClosed,
                   buffer, tokens, line, gpc, jobLog, ret, hist,
                   beyondExecutor>>

\* command.go 100-103: logs.Append of the whole content; its error is logged
Execute_Append ==
    /\ xpc = "Append"
    /\ \E ok \in BOOLEAN :
          /\ jobLog' = IF ok THEN jobLog \o buffer ELSE jobLog
          /\ hist' = [hist EXCEPT !.failedAppends = IF ok THEN @ ELSE @ + 1]
    /\ xpc' = "SetError_Output"
    /\ UNCHANGED <<xImpl, xCmd, xProg, ctx, proc, heir, wrote, pipe, rdClosed,
                   buffer, tokens, line, gpc, xErr, ret, beyondExecutor>>

\* command.go 104-108: logs.SetError, its error is logged; return
Execute_SetError_Output ==
    /\ xpc = "SetError_Output"
    /\ \E ok \in BOOLEAN :
          /\ Return(buffer, xErr)
          /\ hist' = [hist EXCEPT !.failedSetError = ~ok]
    /\ UNCHANGED <<xImpl, xCmd, xProg, heir, wrote, pipe, rdClosed, buffer,
                   tokens, line, gpc, jobLog, xErr, beyondExecutor>>

\* The subprocess writes the next chunk of its script. Under part_000 only
\* stdout is a pipe (part_000 97; Stderr is left nil); under command.go both
\* streams end in the buffer of CombinedOutput.
Subprocess_Write ==
    /\ proc = "running"
    /\ wrote < Len(xProg.script)
    /\ LET c == xProg.script[wrote + 1] IN
          IF xImpl = "part_000"
          THEN /\ pipe' = IF c.stream = "stdout" THEN Append(pipe, Raw(c))
                          ELSE pipe
               /\ buffer' = buffer
          ELSE /\ buffer' = Append(buffer, Raw(c))
               /\ pipe' = pipe
    /\ wrote' = wrote + 1
    /\ UNCHANGED <<xImpl, xCmd, xProg, xpc, ctx, proc, heir, rdClosed, tokens,
                   line, gpc, jobLog, xErr, ret, hist, beyondExecutor>>

\* The subprocess ends by itself
Subprocess_Exit ==
    /\ proc = "running"
    /\ wrote = Len(xProg.script)
    /\ xProg.exit # "never"
    /\ proc' = "exited"
    /\ UNCHANGED <<xImpl, xCmd, xProg, xpc, ctx, heir, wrote, pipe, rdClosed,
                   buffer, tokens, line, gpc, jobLog, xErr, ret, hist,
                   beyondExecutor>>

\* The descendant ends, whenever it likes
Heir_Exit ==
    /\ heir = "alive"
    /\ heir' = "gone"
    /\ UNCHANGED <<xImpl, xCmd, xProg, xpc, ctx, proc, wrote, pipe, rdClosed,
                   buffer, tokens, line, gpc, jobLog, xErr, ret, hist,
                   beyondExecutor>>

\* The scanner has a whole line to return
TokenReady == tokens # <<>> /\ Head(tokens).nl
\* A read of the pipe fails (closed) or meets the end of the stream
AtEnd ==
    \/ rdClosed
    \/ pipe = <<>> /\ proc \in {"exited", "killed"} /\ heir # "alive"

\* scanner.Scan (part_000 106) reads from the pipe through the TeeReader
\* (part_000 103-104): what is read is in the buffer from then on.
Scan_Read ==
    /\ gpc = "Scan"
    /\ ~TokenReady
    /\ ~rdClosed
    /\ pipe # <<>>
    /\ \E n \in 1..Len(pipe) :
          /\ buffer' = buffer \o SubSeq(pipe, 1, n)
          /\ tokens' = tokens \o SubSeq(pipe, 1, n)
          /\ pipe' = SubSeq(pipe, n + 1, Len(pipe))
    /\ UNCHANGED <<xImpl, xCmd, xProg, xpc, ctx, proc, heir, wrote, rdClosed,
                   line, gpc, jobLog, xErr, ret, hist, beyondExecutor>>

\* scanner.Scan returns true (part_000 106-107): a whole line or, at the
\* end of the stream, what is left of it.
Scan_Text ==
    /\ gpc = "Scan"
    /\ TokenReady \/ (tokens # <<>> /\ AtEnd)
    /\ line' = Sprintln(ScanText(Head(tokens)))
    /\ tokens' = Tail(tokens)
    /\ gpc' = "Append"
    /\ UNCHANGED <<xImpl, xCmd, xProg, xpc, ctx, proc, heir, wrote, pipe,
                   rdClosed, buffer, jobLog, xErr, ret, hist, beyondExecutor>>

\* scanner.Scan returns false (part_000 106): the goroutine ends
Scan_End ==
    /\ gpc = "Scan"
    /\ tokens = <<>>
    /\ AtEnd
    /\ gpc' = "ended"
    /\ UNCHANGED <<xImpl, xCmd, xProg, xpc, ctx, proc, heir, wrote, pipe,
                   rdClosed, buffer, tokens, line, jobLog, xErr, ret, hist,
                   beyondExecutor>>

\* An append that fails ends the scanning
Scan_Append_Aborts ==
    /\ gpc = "Append"
    /\ \E ok \in BOOLEAN :
          /\ jobLog' = IF ok THEN Append(jobLog, line) ELSE jobLog
          /\ hist' = [hist EXCEPT
                         !.lateAppend = @ \/ (ok /\ xpc \in {"returned", "replied"}),
                         !.failedAppends = IF ok THEN @ ELSE @ + 1]
          /\ gpc' = IF ok THEN "Scan" ELSE "ended"
    /\ UNCHANGED <<xImpl, xCmd, xProg, xpc, ctx, proc, heir, wrote, pipe,
                   rdClosed, buffer, tokens, line, xErr, ret, beyondExecutor>>

\* part_000 108-110: logs.Append of the line; its error is logged
Scan_Append ==
    /\ gpc = "Append"
    /\ \E ok \in BOOLEAN :
          /\ jobLog' = IF ok THEN Append(jobLog, line) ELSE jobLog
          /\ hist' = [hist EXCEPT
                         !.lateAppend = @ \/ (ok /\ xpc \in {"returned", "replied"}),
                         !.failedAppends = IF ok THEN @ ELSE @ + 1]
    /\ gpc' = "Scan"
    /\ UNCHANGED <<xImpl, xCmd, xProg, xpc, ctx, proc, heir, wrote, pipe,
                   rdClosed, buffer, tokens, line, xErr, ret, beyondExecutor>>

\* Process replies with what Execute returned (meeseeks.go 63-71)
Process_Reply ==
    /\ xpc = "returned"
    /\ xpc' = "replied"
    /\ UNCHANGED <<xImpl, xCmd, xProg, ctx, proc, heir, wrote, pipe, rdClosed,
                   buffer, tokens, line, gpc, jobLog, xErr, ret, hist,
                   beyondExecutor>>

NextExecute ==
    \/ Execute_WithTimeout
    \/ Deadline
    \/ Execute_StdoutPipe
    \/ Execute_go
    \/ Execute_Start
    \/ Execute_SetError_Start
    \/ Execute_Wait
    \/ Execute_SetError_Wait
    \/ Execute_CombinedOutput
    \/ Execute_CombinedOutput_Wait
    \/ Execute_Append
    \/ Execute_SetError_Output
    \/ Subprocess_Write
    \/ Subprocess_Exit
    \/ Heir_Exit
    \/ Scan_Read
    \/ Scan_Text
    \/ Scan_End
    \/ Scan_Append
    \/ Process_Reply

SpecExecute == InitExecute /\ [][NextExecute]_vars

Returned == xpc \in {"returned", "replied"}

\* ---------------------------------------------------------------------------
\* C11: every execution runs under a deadline equal to the command's
\* timeout; a subprocess that has not ended when the deadline expires is
\* killed; Execute then returns a non-nil error; and once the deadline has
\* expired Execute is not kept waiting for the subprocess.
C11_KilledAtDeadline ==
    /\ ctx.state # "none" => ctx.deadline = ConfiguredCommand(xCmd).Timeout
    /\ ctx.state = "expired" => proc # "running"
    /\ ctx.state = "expired" /\ proc = "killed" /\ Returned => ret.err # "nil"
    /\ ctx.state = "expired" /\ xpc = "Wait" =>
          proc \in {"unstarted", "exited", "killed"}
    /\ ctx.state = "expired" /\ xpc = "CombinedOutput_Wait" =>
          proc \in {"exited", "killed"} /\ heir # "alive"

\* ---------------------------------------------------------------------------
\* C12: every append to the job's log is made before Execute returns (and so
\* before the reply): no line is appended after the return.
C12_AppendsBeforeReturn == ~hist.lateAppend

\* ---------------------------------------------------------------------------
\* C13: when Execute returns (no call of the log service having failed), the
\* output it returns is everything the subprocess wrote to stdout and
\* stderr, in the order written, and is equal to the concatenation of what
\* was appended to the job's log.
C13_OutputIsTheLog ==
    Returned /\ hist.failedAppends = 0 /\ ~hist.failedSetError =>
        /\ ret.out = [i \in 1..wrote |-> Raw(xProg.script[i])]
        /\ ret.out = ret.log

\* ---------------------------------------------------------------------------
\* C14: a failed append does not abort the execution. The step in which
\* logs.Append fails leaves the log as it was and otherwise moves exactly as
\* the successful append does: the goroutine goes back to scanning
\* (part_000) or Execute goes on to SetError (command.go), and the
\* subprocess, the context, the collected output, the error and the return
\* value are untouched; and the scanning never ends before the end of the
\* stream, with a scanned line left over.
C14_AppendFailureGoesOn ==
    /\ [](gpc = "ended" => tokens = <<>> /\ AtEnd)
    /\ [][hist'.failedAppends > hist.failedAppends =>
            /\ jobLog' = jobLog
            /\ gpc' = IF xImpl = "part_000" THEN "Scan" ELSE gpc
            /\ xpc' = IF xImpl = "command.go" THEN "SetError_Output" ELSE xpc
            /\ UNCHANGED <<ctx, proc, heir, wrote, pipe, rdClosed, buffer,
                           tokens, xErr, ret>>]_vars

\* An append failed, the line after it was scanned and appended all the
\* same, and Execute returned the whole output.
C14_Witness ==
    /\ xImpl = "part_000"
    /\ hist.failedAppends = 1
    /\ jobLog = <<Sprintln("two")>>
    /\ gpc = "ended"
    /\ Returned
    /\ ret.out = <<Raw(Chunk("stdout", "one", TRUE)),
                   Raw(Chunk("stdout", "two", FALSE))>>
    /\ ret.err = "nil"

\* ---------------------------------------------------------------------------
\* C21: Execute returns a nil error only from behind the wait for the
\* subprocess, and only when the subprocess has exited with status zero;
\* whatever the log service answers, it never returns nil while the
\* subprocess was not started, still runs, was killed or exited non-zero.
C21_NilOnlyAfterCleanExit ==
    [][xpc # "returned" /\ xpc' = "returned" /\ ret'.err = "nil" =>
          /\ xpc \in {"SetError_Wait", "SetError_Output"}
          /\ proc = "exited"
          /\ xProg.exit = "exit 0"]_vars

\* ------------------------------------------------------------------ workers
\* The first lines of Execute (command.go 90-97, part_000 89-95) on two
\* workers that execute the same command at the same time. Slices are
\* modelled as Go has them: a view (array, len, cap) of a backing array that
\* append writes into when the capacity allows.

MaxArgs == 1

RequestArgs == SeqsUpTo({"x", "y"}, MaxArgs)

\* The elements of a slice
Elems(s) == [i \in 1..s.len |-> arrays[s.arr][i]]

\* A configured argument list with room for one more element behind it
ArgsSlice_Spare(args) == Slice("Args", Len(args), Len(args) + 1)

\* The slice config.Command.Args holds (config.go 110): yaml.Unmarshal
\* (config.go 72) and the slice literals of configurations built in code
\* make a slice whose capacity is its length.
ArgsSlice(args) == Slice("Args", Len(args), Len(args))

\* The backing array of a slice of `args` with capacity `cap`
Backing(args, cap) ==
    [i \in 1..cap |-> IF i <= Len(args) THEN args[i] ELSE ""]

InitWorkers ==
    /\ InitMeeseeks
    /\ NoSlack
    /\ NoTimeouts
    /\ NoAgent
    /\ xImpl = ""
    /\ xCmd \in ShellCommands
    /\ xProg = NoProgram
    /\ ExecuteLocals("off")
    /\ cArgs = ArgsSlice(ConfiguredCommand(xCmd).Args)
    /\ arrays = [a \in ArrayNames |->
                    IF a = "Args"
                    THEN Backing(ConfiguredCommand(xCmd).Args, cArgs.cap)
                    ELSE <<>>]
    /\ workers = [w \in WorkerNames |-> IdleWorker]

\* A worker is handed a job for the command (Execute is called)
Worker_Execute(w) ==
    /\ workers[w].pc = "idle"
    /\ \E args \in RequestArgs :
          workers' = [workers EXCEPT ![w] =
                         [IdleWorker EXCEPT !.pc = "append", !.Args = args]]
    /\ UNCHANGED <<arrays, cArgs, beyondWorkers>>

\* cmdArgs := append(c.Args(), job.Request.Args...) (part_000 90,
\* command.go 92): within the capacity the elements are written into the
\* array of c.Args(), otherwise into a new array after a copy.
Worker_append(w) ==
    /\ workers[w].pc = "append"
    /\ LET xs == workers[w].Args
           n == cArgs.len + Len(xs) IN
          IF n <= cArgs.cap
          THEN /\ arrays' = [arrays EXCEPT ![cArgs.arr] =
                                [i \in 1..cArgs.cap |->
                                    IF i > cArgs.len /\ i <= n
                                    THEN xs[i - cArgs.len] ELSE @[i]]]
               /\ workers' = [workers EXCEPT
                                 ![w].cmdArgs = Slice(cArgs.arr, n, cArgs.cap),
                                 ![w].pc = "CommandContext"]
          ELSE /\ arrays' = [arrays EXCEPT ![w] = Elems(cArgs) \o xs]
               /\ workers' = [workers EXCEPT
                                 ![w].cmdArgs = Slice(w, n, n),
                                 ![w].pc = "CommandContext"]
    /\ UNCHANGED <<cArgs, beyondWorkers>>

\* exec.CommandContext(ctx, c.Cmd(), cmdArgs...) (part_000 95,
\* command.go 97) copies the arguments into the argv of the subprocess.
Worker_CommandContext(w) ==
    /\ workers[w].pc = "CommandContext"
    /\ workers' = [workers EXCEPT ![w].argv = Elems(workers[w].cmdArgs),
                                  ![w].pc = "started"]
    /\ UNCHANGED <<arrays, cArgs, beyondWorkers>>

\* Execute returns (part_000 126, command.go 108)
Worker_Return(w) ==
    /\ workers[w].pc = "started"
    /\ workers' = [workers EXCEPT ![w] = IdleWorker]
    /\ UNCHANGED <<arrays, cArgs, beyondWorkers>>

NextWorkers ==
    \E w \in WorkerNames :
        \/ Worker_Execute(w)
        \/ Worker_append(w)
        \/ Worker_CommandContext(w)
        \/ Worker_Return(w)

SpecWorkers == InitWorkers /\ [][NextWorkers]_vars

\* ---------------------------------------------------------------------------
\* C20: in every execution, also when executions of the same command
\* interleave on different workers, the argv handed to the subprocess is
\* the command's configured arguments followed by the arguments of that
\* worker's request, and the configured argument list is what it was.
C20_ArgvIsConfiguredThenRequest ==
    /\ Elems(cArgs) = ConfiguredCommand(xCmd).Args
    /\ \A w \in WorkerNames :
          workers[w].pc = "started" =>
              workers[w].argv = ConfiguredCommand(xCmd).Args \o workers[w].Args

\* One worker has its argv while the other, with other request arguments,
\* has appended and not yet started its subprocess.
C20_Witness ==
    /\ workers["w1"].pc = "started"
    /\ workers["w2"].pc = "CommandContext"
    /\ workers["w1"].Args = <<"x">>
    /\ workers["w2"].Args = <<"y">>
    /\ ConfiguredCommand(xCmd).Args # <<>>

\* ------------------------------------------------------------ slack adapter
\* messageMatcher and Client.ListenMessages (slack.go 136-270). Texts are
\* sequences of lexemes, channel ids sequences of characters, so that
\* HasPrefix, the slicing and TrimSpace are computed.

MaxSlackText == 3
ChanCap == 1

\* rtm.GetInfo().User.ID (slack.go 193)
RtmBotID == "B"
\* The users of the workspace, by id (rtm.GetUserInfo, slack.go 147)
SlackUsers == [u \in {"B", "U1", "U2"} |->
                  CASE u = "B" -> "meeseeks" [] u = "U1" -> "pablo"
                    [] OTHER -> "nobody"]
\* The channels of the workspace: the id of a direct-message channel starts
\* with D (rtm.GetChannelInfo, slack.go 181)
SlackChannels ==
    {[id |-> <<"D", "1">>, im |-> TRUE, name |-> "IM"],
     [id |-> <<"C", "1">>, im |-> FALSE, name |-> "general"],
     [id |-> <<"G", "D">>, im |-> FALSE, name |-> "ops"]}
SlackLexemes == {"<@B>", " ", "hi"}
MessageEvents ==
    {SlackEvent("message", u, c.id, t) :
        u \in DOMAIN SlackUsers, c \in SlackChannels,
        t \in SeqsUpTo(SlackLexemes, MaxSlackText)}
\* An event that is no message (slack.go 265-266)
OtherEvent == SlackEvent("hello", "", <<>>, <<>>)

\* strings.HasPrefix
HasPrefix(str, prefix) ==
    Len(prefix) <= Len(str) /\ SubSeq(str, 1, Len(prefix)) = prefix

IsSpace(c) == c \in {" ", "\t", "\n"}

RECURSIVE TrimLeft(_)
TrimLeft(str) ==
    IF str # <<>> /\ IsSpace(Head(str)) THEN TrimLeft(Tail(str)) ELSE str

RECURSIVE TrimRight(_)
TrimRight(str) ==
    IF str # <<>> /\ IsSpace(str[Len(str)])
    THEN TrimRight(SubSeq(str, 1, Len(str) - 1)) ELSE str

\* TrimSpace taking the leading white space only
TrimSpace_Leading(str) == TrimLeft(str)

\* strings.TrimSpace (slack.go 243)
TrimSpace(str) == TrimRight(TrimLeft(str))

\* auth.IsKnownUser (called at slack.go 163): the user is in some group
IsKnownUser(username) ==
    \E g \in DOMAIN config.Groups : Contains(config.Groups[g], username)

\* messageMatcher.getUser (slack.go 146-154): the name, or "unknown-user"
\* when rtm.GetUserInfo fails
getUser(userID) ==
    {"unknown-user"} \cup
    (IF userID \in DOMAIN SlackUsers THEN {SlackUsers[userID]} ELSE {})

\* messageMatcher.isIMChannel (slack.go 157-159)
isIMChannel(channel) == HasPrefix(channel, <<"D">>)

\* messageMatcher.shouldIgnoreUser (slack.go 161-166): its possible results
shouldIgnoreUser(m, userID) ==
    IF m.stealth THEN {~IsKnownUser(n) : n \in getUser(userID)} ELSE {FALSE}

\* shouldIgnoreChannel that lets every channel through
shouldIgnoreChannel_Never(m, channel) == FALSE

\* messageMatcher.shouldIgnoreChannel (slack.go 168-173)
shouldIgnoreChannel(m, channel) ==
    IF m.stealth THEN ~isIMChannel(channel) ELSE FALSE

\* messageMatcher.getChannel (slack.go 176-187): its possible results
getChannel(channelID) ==
    IF isIMChannel(channelID) THEN {"IM"}
    ELSE {"unknown-channel"} \cup
         {c.name : c \in {d \in SlackChannels : d.id = channelID}}

\* messageMatcher.init (slack.go 191-196)
init(m) ==
    IF m.botID = ""
    THEN [m EXCEPT !.botID = RtmBotID,
                   !.prefixMatches = <<<<"<@" \o RtmBotID \o ">">>>>]
    ELSE m

\* messageMatcher.isMyself (slack.go 218-220)
isMyself(m, message) == message.User = m.botID

\* messageMatcher.shouldCare (slack.go 222-248): its possible results
shouldCare(m, message) ==
    LET no == [text |-> <<>>, ok |-> FALSE]
        hits == {i \in 1..Len(m.prefixMatches) :
                    HasPrefix(message.Text, m.prefixMatches[i])}
        first == CHOOSE i \in hits : \A j \in hits : i <= j
        byPrefix ==
            IF hits = {} THEN no
            ELSE [text |-> TrimSpace(SubSeq(message.Text,
                                            Len(m.prefixMatches[first]) + 1,
                                            Len(message.Text))),
                  ok |-> TRUE]
        known ==
            IF shouldIgnoreChannel(m, message.Channel) THEN no
            ELSE IF isIMChannel(message.Channel)
                 THEN [text |-> message.Text, ok |-> TRUE]
                 ELSE byPrefix
    IN IF isMyself(m, message) THEN {no}
       ELSE {IF ignore THEN no ELSE known :
                ignore \in shouldIgnoreUser(m, message.User)}

\* messageMatcher.Matches (slack.go 198-216): the matcher after init and the
\* possible results
Matches(m, message) ==
    LET m1 == init(m) IN
    {[matcher |-> m1, err |-> ~c.ok,
      message |-> IF c.ok
                  THEN SlackMessage(c.text, message.User, message.Channel,
                                    username, channel,
                                    isIMChannel(message.Channel))
                  ELSE NoSlackMessage] :
        c \in shouldCare(m1, message),
        username \in getUser(message.User),
        channel \in getChannel(message.Channel)}

\* slack.Connect (slack.go 101-134) with and without opts.Stealth
InitSlack(at) ==
    /\ InitMeeseeks
    /\ NoExecution
    /\ NoWorkers
    /\ NoTimeouts
    /\ NoAgent
    /\ \E stealth \in BOOLEAN : matcher = newMessageMatcher(stealth)
    /\ lpc = at
    /\ event = NoEvent
    /\ matched = NoMatch
    /\ ch = <<>>

InitMatcher == InitSlack("off")

\* A call of Matches (slack.go 257)
Matcher_Matches ==
    /\ event = NoEvent
    /\ \E ev \in MessageEvents :
          \E r \in Matches(matcher, ev) :
              /\ matcher' = r.matcher
              /\ event' = ev
              /\ matched' = [err |-> r.err, message |-> r.message]
    /\ UNCHANGED <<lpc, ch, beyondSlack>>

\* The caller is done with the result; the matcher stays as it is
Matcher_Return ==
    /\ event # NoEvent
    /\ event' = NoEvent
    /\ matched' = NoMatch
    /\ UNCHANGED <<matcher, lpc, ch, beyondSlack>>

NextMatcher ==
    \/ Matcher_Matches
    \/ Matcher_Return

SpecMatcher == InitMatcher /\ [][NextMatcher]_vars

InitListen == InitSlack("range")

\* ListenMessages takes the next event (slack.go 254-257): a message goes
\* through Matches, and a matching one is to be sent.
Listen_Event ==
    /\ lpc = "range"
    /\ \E ev \in MessageEvents \cup {OtherEvent} :
          /\ event' = ev
          /\ IF ev.type = "message"
             THEN \E r \in Matches(matcher, ev) :
                     /\ matcher' = r.matcher
                     /\ matched' = [err |-> r.err, message |-> r.message]
                     /\ lpc' = IF r.err THEN "continue" ELSE "send"
             ELSE /\ matched' = NoMatch
                  /\ matcher' = matcher
                  /\ lpc' = "continue"
    /\ UNCHANGED <<ch, beyondSlack>>

\* A message Matches rejects and an event that is no message are passed
\* over (slack.go 258-260, 265-267)
Listen_Continue ==
    /\ lpc = "continue"
    /\ lpc' = "range"
    /\ event' = NoEvent
    /\ matched' = NoMatch
    /\ UNCHANGED <<matcher, ch, beyondSlack>>

\* ch <- message (slack.go 262-263): the send goes through when the channel
\* has room, and waits until it does
Listen_Send ==
    /\ lpc = "send"
    /\ Len(ch) < ChanCap
    /\ ch' = Append(ch, matched.message)
    /\ lpc' = "range"
    /\ event' = NoEvent
    /\ matched' = NoMatch
    /\ UNCHANGED <<matcher, beyondSlack>>

\* The reader of the channel takes a message
Dispatcher_Receive ==
    /\ ch # <<>>
    /\ ch' = Tail(ch)
    /\ UNCHANGED <<matcher, lpc, event, matched, beyondSlack>>

NextListen ==
    \/ Listen_Event
    \/ Listen_Continue
    \/ Listen_Send
    \/ Dispatcher_Receive

SpecListen == InitListen /\ [][NextListen]_vars

\* ---------------------------------------------------------------------------
\* C15: the listener never blocks on handing a matched message over: when
\* the channel is full the message is dropped and the listener goes on, so
\* it is never found holding a message in front of a full channel.
C15_ListenerNeverBlocks == ~(lpc = "send" /\ Len(ch) >= ChanCap)

\* What the workspace knows of the last event
EventChannel == CHOOSE c \in SlackChannels : c.id = event.Channel
AuthorIsBot == event.User = RtmBotID
AuthorIsKnown == IsKnownUser(SlackUsers[event.User])
Forwarded == event.type = "message" /\ ~matched.err
Mention == <<"<@" \o RtmBotID \o ">">>

\* ---------------------------------------------------------------------------
\* C16: in stealth mode a message is forwarded only if its channel is a
\* direct-message channel and its author is a known user; so a message in
\* any other channel, even one that begins with the bot's mention, and a
\* message of an unknown user are ignored.
C16_StealthForwardsKnownIM ==
    matcher.stealth /\ Forwarded => EventChannel.im /\ AuthorIsKnown

C16_Witness ==
    /\ matcher.stealth
    /\ Forwarded
    /\ EventChannel.im
    /\ AuthorIsKnown
    /\ matched.message.text = event.Text

\* ---------------------------------------------------------------------------
\* C17: outside stealth mode a message is forwarded iff its author is not
\* the bot and its channel is a direct-message channel or its text begins
\* with the bot's mention; in a direct-message channel the text is forwarded
\* as it is, otherwise it is the text after the mention without the white
\* space around it. A message of the bot is forwarded in no mode.
C17_ForwardedIffAddressed ==
    event.type = "message" =>
        /\ AuthorIsBot => ~Forwarded
        /\ ~matcher.stealth =>
              /\ Forwarded <=>
                    ~AuthorIsBot
                    /\ (EventChannel.im \/ HasPrefix(event.Text, Mention))
              /\ Forwarded /\ EventChannel.im =>
                    matched.message.text = event.Text
              /\ Forwarded /\ ~EventChannel.im =>
                    LET t == matched.message.text IN
                    /\ t # <<>> => ~IsSpace(t[1]) /\ ~IsSpace(t[Len(t)])
                    /\ \E a, b \in 0..Len(event.Text) :
                          /\ 1 + a + Len(t) + b = Len(event.Text)
                          /\ SubSeq(event.Text, 2 + a, 1 + a + Len(t)) = t
                          /\ \A i \in 2..(1 + a) : IsSpace(event.Text[i])
                          /\ \A i \in (2 + a + Len(t))..Len(event.Text) :
                                IsSpace(event.Text[i])

\* A mention in a public channel, with white space behind the word, was
\* forwarded.
C17_Witness ==
    /\ ~matcher.stealth
    /\ Forwarded
    /\ ~EventChannel.im
    /\ event.Text = <<"<@B>", "hi", " ">>
    /\ matched.message.text = <<"hi">>

\* ----------------------------------------------------------------- timeouts

\* The largest timeout written in a file, in seconds.
MaxTimeout == 3

\* The commands of the file
TimeoutNames == {"echo", "sleepy"}

\* The files: each command's timeout key holds a number of seconds, 0 when
\* the key is left out.
YamlTimeouts == [TimeoutNames -> 0..MaxTimeout]

\* yaml.Unmarshal (config.go 72): the number goes into Command.Timeout as
\* it is written.
Unmarshal(timeouts) ==
    Config([name \in DOMAIN timeouts |->
               Command("sleep", <<"10">>, <<>>, AuthStrategyAny,
                       timeouts[name], NoTemplates, 0)],
           [g \in {AdminGroup} |-> <<"pablo">>], NoMessages)

\* shell.New(meeseeks.CommandOpts{...}) (part_001 121-136): the command
\* keeps the options it is built with.
shellNew(opts) == [kind |-> "shell", Command |-> opts]

\* config.Command as the agent reads it (part_001 103-112, 122-135): next to
\* the fields of config.go 108-117 it has a channel strategy, allowed
\* channels, a NoHandshake flag, and a help made of a summary and arguments.
AgentCommand(command, channelStrategy, allowedChannels, noHandshake, help) ==
    [Cmd |-> command.Cmd, Args |-> command.Args,
     AllowedGroups |-> command.AllowedGroups,
     AuthStrategy |-> command.AuthStrategy, Timeout |-> command.Timeout,
     Templates |-> command.Templates,
     ChannelStrategy |-> channelStrategy, AllowedChannels |-> allowedChannels,
     NoHandshake |-> noHandshake, Help |-> help]

\* Help{Summary, Args}
Help(summary, args) == [Summary |-> summary, Args |-> args]

\* A command of config.go read by the agent: the fields config.New does not
\* know have their zero values.
ZeroAgentCommand(command) ==
    AgentCommand(command, "", <<>>, FALSE, Help(command.Help, <<>>))

\* Configuration.registerLocalCommands (part_001 118-139): the options of
\* each command, field by field.
registerLocalCommands(Commands) ==
    [name \in DOMAIN Commands |->
        LET command == Commands[name] IN
        shellNew([AuthStrategy |-> command.AuthStrategy,
                  AllowedGroups |-> command.AllowedGroups,
                  ChannelStrategy |-> command.ChannelStrategy,
                  AllowedChannels |-> command.AllowedChannels,
                  Args |-> command.Args,
                  Handshake |-> ~command.NoHandshake,
                  Cmd |-> command.Cmd,
                  Help |-> Help(command.Help.Summary, command.Help.Args),
                  Templates |-> command.Templates,
                  Timeout |-> command.Timeout * Second])]

InitTimeouts ==
    /\ InitMeeseeks
    /\ config \in StructConfigs
    /\ NoExecution
    /\ NoWorkers
    /\ NoSlack
    /\ tpc = "file"
    /\ yamlTimeouts \in YamlTimeouts
    /\ cnfCommands = [name \in {} |-> BuiltinConfiguredCommand]
    /\ registered = NoRegistered
    /\ running = NoRunning
    /\ NoAgent

\* config.New reads the file (config.go 52-96)
Timeouts_ConfigNew ==
    /\ tpc = "file"
    /\ cnfCommands' = ConfigNew(Unmarshal(yamlTimeouts)).Commands
    /\ tpc' = "config.New"
    /\ UNCHANGED <<yamlTimeouts, registered, running, beyondTimeouts>>

\* The service builds its catalog from the configuration (command.New,
\* part_000 33-57).
Timeouts_CommandNew ==
    /\ tpc = "config.New"
    /\ LET built == New([Unmarshal(yamlTimeouts)
                            EXCEPT !.Commands = cnfCommands]) IN
          registered' = [by |-> "command.New",
                         commands |-> [name \in DOMAIN cnfCommands |->
                                          built.commands[name]]]
    /\ tpc' = "registered"
    /\ UNCHANGED <<yamlTimeouts, cnfCommands, running, beyondTimeouts>>

\* The agent registers the commands of its configuration (part_001 118-139).
Timeouts_registerLocalCommands ==
    /\ tpc = "config.New"
    /\ registered' = [by |-> "registerLocalCommands",
                      commands |-> registerLocalCommands(
                          [name \in DOMAIN cnfCommands |->
                              ZeroAgentCommand(cnfCommands[name])])]
    /\ tpc' = "registered"
    /\ UNCHANGED <<yamlTimeouts, cnfCommands, running, beyondTimeouts>>

\* Execute opens its context (command.go 91-94, part_000 92).
Timeouts_Execute ==
    /\ tpc = "registered"
    /\ \E name \in DOMAIN registered.commands,
          impl \in {"command.go", "part_000"} :
          running' = [name |-> name, impl |-> impl,
                      deadline |->
                         ConfiguredCommand(registered.commands[name]).Timeout]
    /\ tpc' = "Execute"
    /\ UNCHANGED <<yamlTimeouts, cnfCommands, registered, beyondTimeouts>>

\* Execute returns
Timeouts_Return ==
    /\ tpc = "Execute"
    /\ running' = NoRunning
    /\ tpc' = "registered"
    /\ UNCHANGED <<yamlTimeouts, cnfCommands, registered, beyondTimeouts>>

NextTimeouts ==
    \/ Timeouts_ConfigNew
    \/ Timeouts_CommandNew
    \/ Timeouts_registerLocalCommands
    \/ Timeouts_Execute
    \/ Timeouts_Return

SpecTimeouts == InitTimeouts /\ [][NextTimeouts]_vars

\* ---------------------------------------------------------------------------
\* C18: a command is executed under a timeout of 60 seconds when the file
\* gives it the timeout 0, and of the file's number of seconds otherwise,
\* whoever built the command from the configuration.
C18_TimeoutScaledOnce ==
    tpc = "Execute" =>
        running.deadline = IF yamlTimeouts[running.name] = 0
                           THEN 60 * Second
                           ELSE yamlTimeouts[running.name] * Second

\* -------------------------------------------------------------------- agent

\* The names an agent's configuration can give its commands
AgentNames == {"echo", "sleepy"}

\* The commands of an agent's configuration: with and without handshake,
\* open or kept to a group and to a channel, with a timeout or none.
AgentCommands ==
    { AgentCommand(Command("echo", <<"hi">>, groups, strategy, timeout * Second,
                           NoTemplates, ShellCommandType),
                   IF groups = <<>> THEN "any" ELSE "allowed",
                   IF groups = <<>> THEN <<>> ELSE <<"ops">>,
                   noHandshake, Help("says hi", <<"text">>)) :
        groups \in {<<>>, <<AdminGroup>>},
        strategy \in {AuthStrategyAny, AuthStrategyAllowedGroup},
        timeout \in 0..MaxTimeout,
        noHandshake \in BOOLEAN }

\* The values of Configuration.Commands
AgentConfigurations ==
    UNION {[names -> AgentCommands] : names \in SUBSET AgentNames}

\* int64(cmd.Timeout) (part_001 103): a Duration is an int64 count, the
\* conversion keeps the number.
Int64(d) == d

\* Configuration.createRemoteCommands (part_001 99-116). hasHandshake
\* (part_003 42) is not among the fields it sets and keeps the zero value.
createRemoteCommands(Commands) ==
    [name \in DOMAIN Commands |->
        LET command == Commands[name] IN
        [Timeout |-> Int64(command.Timeout),
         AuthStrategy |-> command.AuthStrategy,
         AllowedGroups |-> command.AllowedGroups,
         ChannelStrategy |-> command.ChannelStrategy,
         AllowedChannels |-> command.AllowedChannels,
         Templates |-> command.Templates,
         Help |-> Help(command.Help.Summary, command.Help.Args),
         hasHandshake |-> FALSE]]

InitAgent ==
    /\ InitMeeseeks
    /\ config \in StructConfigs
    /\ NoExecution
    /\ NoWorkers
    /\ NoSlack
    /\ NoTimeouts
    /\ agentpc = "configured"
    /\ agentCommands \in AgentConfigurations
    /\ remoteCommands = [name \in {} |-> BuiltinConfiguredCommand]
    /\ cmds = NoCommands

\* Configuration.createAgentConfiguration (part_001 91-97)
Agent_createAgentConfiguration ==
    /\ agentpc \in {"configured", "registered"}
    /\ remoteCommands' = createRemoteCommands(agentCommands)
    /\ agentpc' = IF agentpc = "registered" THEN "both" ELSE "advertised"
    /\ UNCHANGED <<agentCommands, cmds, beyondAgent>>

\* Configuration.registerLocalCommands (part_001 118-139)
Agent_registerLocalCommands ==
    /\ agentpc \in {"configured", "advertised"}
    /\ cmds' = registerLocalCommands(agentCommands)
    /\ agentpc' = IF agentpc = "advertised" THEN "both" ELSE "registered"
    /\ UNCHANGED <<agentCommands, remoteCommands, beyondAgent>>

NextAgent ==
    \/ Agent_createAgentConfiguration
    \/ Agent_registerLocalCommands

SpecAgent == InitAgent /\ [][NextAgent]_vars

\* ---------------------------------------------------------------------------
\* C23: once the agent has advertised and registered its commands, the
\* advertised names are the registered names, and under each name the
\* advertised command and the registered one have the same timeout, auth
\* strategy, allowed groups, channel strategy, allowed channels, help and
\* handshake flag.
C23_AdvertisedIsRegistered ==
    agentpc = "both" =>
        /\ DOMAIN remoteCommands = DOMAIN cmds
        /\ \A name \in DOMAIN remoteCommands \cap DOMAIN cmds :
              LET remote == remoteCommands[name]
                  local == ConfiguredCommand(cmds[name]) IN
              /\ remote.Timeout = local.Timeout
              /\ remote.AuthStrategy = local.AuthStrategy
              /\ remote.AllowedGroups = local.AllowedGroups
              /\ remote.ChannelStrategy = local.ChannelStrategy
              /\ remote.AllowedChannels = local.AllowedChannels
              /\ remote.Help = local.Help
              /\ remote.hasHandshake = local.Handshake

====
